---- MODULE Spec2Model ----
(***************************************************************************)
(* Model of the Homie device agent, src/homie/main.py (class Homie).       *)
(*                                                                         *)
(* The core's fields are the variables.  The transport client (self.mqtt)  *)
(* is a recorder: every call the core makes on it is appended to `calls`   *)
(* (the calls of the most recent operation) and folded into the transport  *)
(* state (will, handlers, filters, loopRunning).  Each public method and   *)
(* each lifecycle callback is one action, run to completion: Spec is the   *)
(* program as the transport drives it (callbacks only while the network    *)
(* loop runs), SpecHarness the subscription operations with the callbacks  *)
(* invoked directly.                                                       *)
(***************************************************************************)
EXTENDS Naturals, Sequences, FiniteSets, TLC

VARIABLES
    baseTopic,             \* self.baseTopic
    deviceId,              \* self.deviceId
    host,                  \* self.host
    subscribe_all,         \* self.subscribe_all
    instance,              \* the caller holds a constructed Homie object
    mqtt_topic,            \* self.mqtt_topic, NoAttr while the attribute is unset
    mqtt,                  \* self.mqtt exists
    fwname,                \* self.fwname
    fwversion,             \* self.fwversion
    nodes,                 \* self.nodes
    subscriptions,         \* self.subscriptions: sequence of <<topic, qos>>
    subscribe_all_forced,  \* self.subscribe_all_forced
    setupCalled,           \* self._setupCalled
    mqtt_connected,        \* self._mqtt_connected
    mqtt_subscribed,       \* self._mqtt_subscribed
    timersStarted,         \* uptimeTimer and signalTimer were started
    will,                  \* transport: the registered last will
    handlers,              \* transport: topics with a message callback
    filters,               \* transport: topic filters subscribed and not unsubscribed
    loopRunning,           \* transport: the network loop is running
    transportUsed,         \* transport: some call was made on the client
    exited,                \* the process has run its exit hook
    op,                    \* the most recent operation
    raised,                \* the exception that operation raised, "" if none
    args,                  \* the arguments of that operation that the model keeps
    calls,                 \* the transport calls that operation made, in order
    nConnects,             \* number of 'connected' callbacks delivered in a row
    exitPc,                \* where the main thread stands in the exit hook
    timerPc,               \* where a timer thread stands in Homie.publish
    workerPc,              \* the worker in _connected: 0 outside the loop of
                           \* publishNodes, else the index the loop is at
    listed,                \* node ids of the last $nodes payload
    announced              \* node ids whose properties the last loop sent

vars == <<baseTopic, deviceId, host, subscribe_all, instance, mqtt_topic, mqtt, fwname, fwversion,
          nodes, subscriptions, subscribe_all_forced, setupCalled,
          mqtt_connected, mqtt_subscribed, timersStarted, will, handlers,
          filters, loopRunning, transportUsed, exited, op, raised, args,
          calls, nConnects, exitPc, timerPc, workerPc, listed, announced>>

\* the positions of the threads inside an operation that is run step by step
threadState == <<exitPc, timerPc, workerPc, listed, announced>>

\* the core's own fields (everything a method of Homie can assign)
coreState == <<host, subscribe_all, mqtt_topic, mqtt, fwname, fwversion, nodes,
               subscriptions, subscribe_all_forced, setupCalled,
               mqtt_connected, mqtt_subscribed, timersStarted>>

\* the transport's state
transportState == <<will, handlers, filters, loopRunning, transportUsed>>

(***************************************************************************)
(* Bounds of the model.                                                    *)
(***************************************************************************)
MaxNodes == 2
MaxSubs == 2
MaxConnects == 3

(***************************************************************************)
(* Python values.                                                          *)
(***************************************************************************)
\* Python's None; str(None) is "None"
None == "None"

\* an attribute that was never assigned
NoAttr == "<unset>"

\* truth value of an optional string: None and "" are false
Truthy(v) == v \notin {None, ""}

RECURSIVE Join(_, _)
\* sep.join(parts)
Join(sep, parts) ==
    IF parts = <<>> THEN ""
    ELSE IF Len(parts) = 1 THEN parts[1]
    ELSE parts[1] \o sep \o Join(sep, Tail(parts))

(***************************************************************************)
(* Configuration: DEFAULT_PREFS, and the inputs a configuration can give.  *)
(***************************************************************************)
HOMIE_VERSION == "2.0.1"
DefaultDeviceId == "xxxxxxxx"
DefaultDeviceName == "xxxxxxxx"
DefaultBaseTopic == "devices"
DefaultQos == 1
DefaultUsername == None
DefaultCaCerts == None
StatsInterval == 60

Hosts == {None, "", "localhost"}
NodeIds == {"switch", "sensor"}
\* the node and attribute the device subscribes to and sets
SubNodeIds == {"switch"}
Attrs == {"on"}
FwArgs == {<<"relay-switch", "1.0.0">>, <<"relay-switch", None>>, <<"", "1.0.0">>}
\* an omitted optional argument is <<>>, a given one is <<value>>
QosArgs == {<<>>, <<2>>}
RetainArgs == {<<>>, <<TRUE>>, <<FALSE>>}
ConnectOutcomes == {"ok", "EnvironmentError", "ValueError"}

(***************************************************************************)
(* Transport calls.                                                        *)
(***************************************************************************)
Pub(topic, payload, retain, qos) ==
    [op |-> "publish", topic |-> topic, payload |-> payload,
     retain |-> retain, qos |-> qos]
Sub(pairs) == [op |-> "subscribe", subs |-> pairs]
Unsub(topic) == [op |-> "unsubscribe", topic |-> topic]
WillSet(topic, payload, retain) ==
    [op |-> "will_set", topic |-> topic, payload |-> payload, retain |-> retain]
MessageCallbackAdd(topic) == [op |-> "message_callback_add", topic |-> topic]
Connect == [op |-> "connect"]
LoopStart == [op |-> "loop_start"]
LoopStop == [op |-> "loop_stop"]
Disconnect == [op |-> "disconnect"]

NoWill == [op |-> "none"]

RECURSIVE TransportAfter(_, _)
\* the transport's state after the calls cs, made in order
TransportAfter(t, cs) ==
    IF cs = <<>> THEN t
    ELSE LET c == Head(cs)
             t1 == [t EXCEPT !.used = TRUE]
             t2 == CASE c.op = "will_set" -> [t1 EXCEPT !.will = c]
                     [] c.op = "message_callback_add" ->
                            [t1 EXCEPT !.handlers = @ \cup {c.topic}]
                     [] c.op = "subscribe" ->
                            [t1 EXCEPT !.filters =
                                @ \cup {c.subs[i][1] : i \in 1..Len(c.subs)}]
                     [] c.op = "unsubscribe" ->
                            [t1 EXCEPT !.filters = @ \ {c.topic}]
                     [] c.op = "loop_start" -> [t1 EXCEPT !.loop = TRUE]
                     [] c.op = "loop_stop" -> [t1 EXCEPT !.loop = FALSE]
                     [] OTHER -> t1
         IN TransportAfter(t2, Tail(cs))

\* one operation's record: what it was, what it raised, the calls it made.
\* The identity is assigned by the constructor alone, so every operation
\* leaves it as it is.
Rec(name, exc, as, cs) ==
    LET t == TransportAfter([will |-> will, handlers |-> handlers,
                             filters |-> filters, loop |-> loopRunning,
                             used |-> transportUsed], cs)
    IN /\ op' = name
       /\ raised' = exc
       /\ args' = as
       /\ calls' = cs
       /\ nConnects' = (IF name = "_connected" THEN nConnects + 1 ELSE 0)
       /\ will' = t.will
       /\ handlers' = t.handlers
       /\ filters' = t.filters
       /\ loopRunning' = t.loop
       /\ transportUsed' = t.used
       /\ UNCHANGED <<baseTopic, deviceId>>

\* the record of an operation that runs from its first statement to its last
\* with no other thread in between
Did(name, exc, as, cs) ==
    /\ Rec(name, exc, as, cs)
    /\ UNCHANGED threadState

(***************************************************************************)
(* The device identifier: the validating setter of Homie.deviceId.         *)
(***************************************************************************)
IdChars == {"a", "b", "c", "d", "e", "f", "g", "h", "i", "j", "k", "l", "m",
            "n", "o", "p", "q", "r", "s", "t", "u", "v", "w", "x", "y", "z",
            "0", "1", "2", "3", "4", "5", "6", "7", "8", "9"}

\* the i-th character of a string
CharAt(str, i) == SubSeq(str, i, i)

\* homie.helpers.isIdFormat: lowercase alphanumerics and hyphens, no hyphen
\* first or last, no two hyphens in a row
isIdFormat(id) ==
    /\ id # None
    /\ Len(id) > 0
    /\ \A i \in 1..Len(id) : CharAt(id, i) \in IdChars \cup {"-"}
    /\ CharAt(id, 1) # "-"
    /\ CharAt(id, Len(id)) # "-"
    /\ \A i \in 1..(Len(id) - 1) : ~(CharAt(id, i) = "-" /\ CharAt(id, i + 1) = "-")

\* homie.helpers.generateDeviceId: some random identifier of 8 characters
GeneratedIds == {"k3x9q2ab", "0f7c5d1e"}

\* the values the setter of deviceId can leave in self._deviceId
deviceIdSetter(configured) ==
    IF isIdFormat(configured) THEN {configured} ELSE GeneratedIds

\* identities a configuration can give: <<TOPIC, DEVICE_ID>>
IdentityConfigs == {<<"devices", "bad_ID!">>, <<"homie", "relay-1">>}

(***************************************************************************)
(* Homie.__init__                                                          *)
(***************************************************************************)
\* mutant: the topic root is built from the defaults, not from the configuration
HomieInitDefaultRoot(h) ==
    IF ~Truthy(h)
    THEN [raised |-> "ValueError", mqtt_topic |-> NoAttr, mqtt |-> FALSE]
    ELSE [raised |-> "",
          mqtt_topic |-> Join("/", <<DefaultBaseTopic, DefaultDeviceId>>),
          mqtt |-> TRUE]

\* mutant: the host is checked only after the topic and the client are set up
HomieInitLateCheck(h) ==
    [raised |-> IF ~Truthy(h) THEN "ValueError" ELSE "",
     mqtt_topic |-> Join("/", <<baseTopic, deviceId>>),
     mqtt |-> TRUE]

\* the constructor's outcome for a configured host
HomieInit(h) ==
    IF ~Truthy(h)
    THEN [raised |-> "ValueError", mqtt_topic |-> NoAttr, mqtt |-> FALSE]
    ELSE [raised |-> "",
          mqtt_topic |-> Join("/", <<baseTopic, deviceId>>),
          mqtt |-> TRUE]

\* the state a constructor call leaves, for one of the given configurations
\* <<base topic, device id>>
InitWith(configs) ==
    /\ \E config \in configs :
          /\ baseTopic = config[1]
          /\ deviceId \in deviceIdSetter(config[2])
    /\ host \in Hosts
    /\ subscribe_all \in BOOLEAN
    /\ instance = (HomieInit(host).raised = "")
    /\ mqtt_topic = HomieInit(host).mqtt_topic
    /\ mqtt = HomieInit(host).mqtt
    /\ fwname = None
    /\ fwversion = None
    /\ nodes = <<>>
    /\ subscriptions = <<>>
    /\ subscribe_all_forced = FALSE
    /\ setupCalled = FALSE
    /\ mqtt_connected = FALSE
    /\ mqtt_subscribed = FALSE
    /\ timersStarted = FALSE
    /\ will = NoWill
    /\ handlers = {}
    /\ filters = {}
    /\ loopRunning = FALSE
    /\ transportUsed = FALSE
    /\ exited = FALSE
    /\ op = "__init__"
    /\ raised = HomieInit(host).raised
    /\ args = <<>>
    /\ calls = <<>>
    /\ nConnects = 0
    /\ exitPc = "run"
    /\ timerPc = "idle"
    /\ workerPc = 0
    /\ listed = <<>>
    /\ announced = <<>>

\* the constructor with the identity of DEFAULT_PREFS
Init == InitWith({<<DefaultBaseTopic, DefaultDeviceId>>})

(***************************************************************************)
(* Helpers of the core: publish, the subscription sequence, the publish*   *)
(* methods.  Each yields the transport calls it makes, in order.           *)
(***************************************************************************)
\* the properties a node of the given id declares, in declaration order
DeclaredProps(nodeId) ==
    IF nodeId = "switch" THEN <<"on">> ELSE <<"temperature", "humidity">>

\* a node handle: HomieNode(homie, nodeId, nodeType)
HomieNode(nodeId) == [nodeId |-> nodeId, props |-> DeclaredProps(nodeId)]

\* mutant: publish does not look at the connection state
publishUnchecked(conn, topic, payload, retain) ==
    <<Pub(topic, payload, retain, DefaultQos)>>

\* Homie.publish: one transport publish if connected, else nothing
publish(conn, topic, payload, retain) ==
    IF conn THEN <<Pub(topic, payload, retain, DefaultQos)>> ELSE <<>>

\* Homie._unsubscribe with no topic: the wildcard
unsubscribeWildcard == <<Unsub(mqtt_topic \o "/#")>>

\* mutant: the wildcard is subscribed whether or not subscriptions are recorded
subscribeSequenceAlsoWildcard(subs, forced) ==
    [calls |-> (IF subs # <<>> THEN <<Sub(subs)>> ELSE <<>>)
               \o <<Sub(<< <<mqtt_topic \o "/#", DefaultQos>> >>)>>,
     forced |-> TRUE]

\* mutant: the forced wildcard is never unsubscribed
subscribeSequenceKeepsWildcard(subs, forced) ==
    IF subs # <<>>
    THEN [calls |-> <<Sub(subs)>>, forced |-> forced]
    ELSE [calls |-> <<Sub(<< <<mqtt_topic \o "/#", DefaultQos>> >>)>>,
          forced |-> TRUE]

\* Homie._subscribe on the subscription list subs with the forced flag as given
subscribeSequence(subs, forced) ==
    IF subs # <<>>
    THEN [calls |-> <<Sub(subs)>> \o
                    (IF forced /\ ~subscribe_all THEN unsubscribeWildcard ELSE <<>>),
          forced |-> forced]
    ELSE [calls |-> <<Sub(<< <<mqtt_topic \o "/#", DefaultQos>> >>)>>,
          forced |-> TRUE]

RECURSIVE sendProperties(_, _, _)
\* HomieNode.sendProperties: the declared properties of one node, from index i
sendProperties(conn, node, i) ==
    IF i > Len(node.props) THEN <<>>
    ELSE publish(conn, Join("/", <<mqtt_topic, node.nodeId, node.props[i]>>),
                 "<value>", TRUE)
         \o sendProperties(conn, node, i + 1)

RECURSIVE sendAllProperties(_, _, _)
\* the loop of publishNodes over ns, from index i
sendAllProperties(conn, ns, i) ==
    IF i > Len(ns) THEN <<>>
    ELSE sendProperties(conn, ns[i], 1) \o sendAllProperties(conn, ns, i + 1)

publishNodes(conn) ==
    publish(conn, mqtt_topic \o "/$nodes",
            Join(",", [i \in 1..Len(nodes) |-> nodes[i].nodeId]), TRUE)
    \o sendAllProperties(conn, nodes, 1)

publishHomieVersion(conn) ==
    publish(conn, mqtt_topic \o "/$homie", HOMIE_VERSION, TRUE)

\* mutant: the firmware name is published whether or not it was set
publishFwnameAlways(conn) ==
    publish(conn, mqtt_topic \o "/$fw/name", fwname, TRUE)

publishFwname(conn) ==
    IF Truthy(fwname) THEN publish(conn, mqtt_topic \o "/$fw/name", fwname, TRUE)
    ELSE <<>>

publishFwversion(conn) ==
    IF Truthy(fwversion)
    THEN publish(conn, mqtt_topic \o "/$fw/version", fwversion, TRUE)
    ELSE <<>>

publishLocalipAndMac(conn) ==
    publish(conn, mqtt_topic \o "/$localip", "<local_ip>", TRUE)
    \o publish(conn, mqtt_topic \o "/$mac", "<local_mac>", TRUE)

publishStatsInterval(conn) ==
    publish(conn, mqtt_topic \o "/$stats/interval", ToString(StatsInterval), TRUE)

publishUptime(conn) ==
    publish(conn, mqtt_topic \o "/$stats/uptime", "<uptime>", TRUE)

publishSignal(conn) ==
    publish(conn, mqtt_topic \o "/$stats/signal", "<signal>", TRUE)

publishImplementation(conn) ==
    publish(conn, mqtt_topic \o "/$implementation", "homie-python", TRUE)

\* the publishes of Homie._connected, after the subscription sequence
announcement(conn) ==
    publish(conn, mqtt_topic \o "/$online", "true", TRUE)
    \o publish(conn, mqtt_topic \o "/$name", DefaultDeviceName, TRUE)
    \o publishHomieVersion(conn)
    \o publishFwname(conn)
    \o publishFwversion(conn)
    \o publishNodes(conn)
    \o publishLocalipAndMac(conn)
    \o publishStatsInterval(conn)
    \o publishUptime(conn)
    \o publishSignal(conn)
    \o publishImplementation(conn)

\* mutant: the check never raises
checkBeforeSetupNever == ""

\* Homie._checkBeforeSetup: the exception it raises, "" if none
checkBeforeSetup == IF setupCalled THEN "BaseException" ELSE ""

(***************************************************************************)
(* The caller's operations.                                                *)
(***************************************************************************)
\* the main thread runs the device program: the object was constructed and
\* the process has not begun to exit
Alive == instance /\ ~exited /\ exitPc = "run"

Node ==
    /\ Alive
    /\ Len(nodes) < MaxNodes
    /\ \E id \in NodeIds : nodes' = Append(nodes, HomieNode(id))
    /\ Did("Node", "", <<>>, <<>>)
    /\ UNCHANGED <<host, subscribe_all, instance, mqtt_topic, mqtt, fwname,
                   fwversion, subscriptions, subscribe_all_forced, setupCalled,
                   mqtt_connected, mqtt_subscribed, timersStarted, exited>>

\* Homie.Timer: the new timer goes to self.timers, a list the core appends to
\* and never reads, of which the model keeps no copy
Timer ==
    /\ Alive
    /\ Did("Timer", "", <<>>, <<>>)
    /\ UNCHANGED <<coreState, instance, exited>>

SetFirmware ==
    /\ Alive
    /\ IF checkBeforeSetup # ""
       THEN /\ Did("setFirmware", checkBeforeSetup, <<>>, <<>>)
            /\ UNCHANGED <<fwname, fwversion>>
       ELSE \E a \in FwArgs :
               /\ fwname' = a[1]
               /\ fwversion' = a[2]
               /\ Did("setFirmware", "", a, <<>>)
    /\ UNCHANGED <<host, subscribe_all, instance, mqtt_topic, mqtt, nodes,
                   subscriptions, subscribe_all_forced, setupCalled,
                   mqtt_connected, mqtt_subscribed, timersStarted, exited>>

\* mutant: the pair is recorded even in subscribe-all mode
subscribeTopicAlwaysRecords(name, topic, q) ==
    LET qos == IF q = <<>> THEN DefaultQos ELSE q[1]
        subs == Append(subscriptions, <<topic, qos>>)
        seq == IF mqtt_connected
               THEN subscribeSequence(subs, subscribe_all_forced)
               ELSE [calls |-> <<>>, forced |-> subscribe_all_forced]
    IN /\ subscriptions' = subs
       /\ subscribe_all_forced' = seq.forced
       /\ Did(name, "", <<topic>>, seq.calls \o <<MessageCallbackAdd(topic)>>)

\* the body of subscribe and of subscribeProperty past the before-setup check
subscribeTopic(name, topic, q) ==
    LET qos == IF q = <<>> THEN DefaultQos ELSE q[1]
        subs == IF ~subscribe_all
                THEN Append(subscriptions, <<topic, qos>>)
                ELSE subscriptions
        seq == IF mqtt_connected
               THEN subscribeSequence(subs, subscribe_all_forced)
               ELSE [calls |-> <<>>, forced |-> subscribe_all_forced]
    IN /\ subscriptions' = subs
       /\ subscribe_all_forced' = seq.forced
       /\ Did(name, "", <<topic>>, seq.calls \o <<MessageCallbackAdd(topic)>>)

Subscribe ==
    /\ Alive
    /\ IF checkBeforeSetup # ""
       THEN /\ Did("subscribe", checkBeforeSetup, <<>>, <<>>)
            /\ UNCHANGED <<subscriptions, subscribe_all_forced>>
       ELSE /\ Len(subscriptions) < MaxSubs
            /\ \E id \in SubNodeIds : \E attr \in Attrs : \E q \in QosArgs :
                  subscribeTopic("subscribe",
                      Join("/", <<mqtt_topic, id, attr, "set">>), q)
    /\ UNCHANGED <<host, subscribe_all, instance, mqtt_topic, mqtt, fwname,
                   fwversion, nodes, setupCalled, mqtt_connected,
                   mqtt_subscribed, timersStarted, exited>>

SubscribeProperty ==
    /\ Alive
    /\ IF checkBeforeSetup # ""
       THEN /\ Did("subscribeProperty", checkBeforeSetup, <<>>, <<>>)
            /\ UNCHANGED <<subscriptions, subscribe_all_forced>>
       ELSE /\ Len(subscriptions) < MaxSubs
            /\ \E id \in SubNodeIds : \E attr \in Attrs : \E q \in QosArgs :
                  subscribeTopic("subscribeProperty",
                      Join("/", <<mqtt_topic, id, attr>>), q)
    /\ UNCHANGED <<host, subscribe_all, instance, mqtt_topic, mqtt, fwname,
                   fwversion, nodes, setupCalled, mqtt_connected,
                   mqtt_subscribed, timersStarted, exited>>

SetNodeProperty ==
    /\ Alive
    /\ \E id \in SubNodeIds : \E prop \in Attrs : \E r \in RetainArgs :
          LET topic == Join("/", <<mqtt_topic, id, prop>>)
              retain == IF r = <<>> THEN TRUE ELSE r[1]
          IN Did("setNodeProperty", "", <<topic, r>>,
                 publish(mqtt_connected, topic, "true", retain))
    /\ UNCHANGED <<host, subscribe_all, instance, mqtt_topic, mqtt, fwname,
                   fwversion, nodes, subscriptions, subscribe_all_forced,
                   setupCalled, mqtt_connected, mqtt_subscribed, timersStarted,
                   exited>>

\* mutant: the second attempt is made whatever the first one raised
initializeRetryAny(o1, o2) ==
    LET prepare == <<WillSet(mqtt_topic \o "/$online", "false", TRUE)>>
    IN CASE o1 = "ok" ->
              [raised |-> "", calls |-> prepare \o <<Connect, LoopStart>>]
         [] o1 # "ok" /\ o2 = "ok" ->
              [raised |-> "",
               calls |-> prepare \o <<Connect, Connect, LoopStart>>]
         [] OTHER ->
              [raised |-> o2, calls |-> prepare \o <<Connect, Connect>>]

\* Homie._initialize with the outcomes of the first and second connect
initialize(o1, o2) ==
    LET prepare == <<WillSet(mqtt_topic \o "/$online", "false", TRUE)>>
                   \o (IF Truthy(DefaultUsername)
                       THEN <<[op |-> "username_pw_set"]>> ELSE <<>>)
                   \o (IF Truthy(DefaultCaCerts)
                       THEN <<[op |-> "tls_set"]>> ELSE <<>>)
    IN CASE o1 = "ok" ->
              [raised |-> "", calls |-> prepare \o <<Connect, LoopStart>>]
         [] o1 = "EnvironmentError" /\ o2 = "ok" ->
              [raised |-> "",
               calls |-> prepare \o <<Connect, Connect, LoopStart>>]
         [] o1 = "EnvironmentError" /\ o2 # "ok" ->
              [raised |-> o2, calls |-> prepare \o <<Connect, Connect>>]
         [] OTHER ->
              [raised |-> o1, calls |-> prepare \o <<Connect>>]

\* mutant: setup() does not record that it was called
SetupFlagUnset ==
    /\ Alive
    /\ ~setupCalled
    /\ setupCalled' = FALSE
    /\ \E o1 \in ConnectOutcomes : \E o2 \in ConnectOutcomes :
          LET r == initialize(o1, o2)
          IN /\ timersStarted' = (r.raised = "")
             /\ Did("setup", r.raised, <<o1, o2>>, r.calls)
    /\ UNCHANGED <<host, subscribe_all, instance, mqtt_topic, mqtt, fwname,
                   fwversion, nodes, subscriptions, subscribe_all_forced,
                   mqtt_connected, mqtt_subscribed, exited>>

\* Homie.setup, which a device program calls once; o1 and o2 are what the
\* transport answers to a first and to a second connect
Setup ==
    /\ Alive
    /\ ~setupCalled
    /\ setupCalled' = TRUE
    /\ \E o1 \in ConnectOutcomes : \E o2 \in ConnectOutcomes :
          LET r == initialize(o1, o2)
          IN /\ timersStarted' = (r.raised = "")
             /\ Did("setup", r.raised, <<o1, o2>>, r.calls)
    /\ UNCHANGED <<host, subscribe_all, instance, mqtt_topic, mqtt, fwname,
                   fwversion, nodes, subscriptions, subscribe_all_forced,
                   mqtt_connected, mqtt_subscribed, exited>>

(***************************************************************************)
(* The transport's lifecycle callbacks, run on the transport's worker.     *)
(***************************************************************************)
\* the assignments of Homie._connected, given the forced flag its subscription
\* sequence leaves and the transport calls the callback makes
connectedStep(forced, cs) ==
    /\ nConnects < MaxConnects
    /\ mqtt_connected' = TRUE
    /\ subscribe_all_forced' = forced
    /\ Did("_connected", "", <<>>, cs)
    /\ UNCHANGED <<host, subscribe_all, instance, mqtt_topic, mqtt, fwname,
                   fwversion, nodes, subscriptions, setupCalled,
                   mqtt_subscribed, timersStarted, exited>>

\* the subscription sequence of a callback that does not subscribe
noSubscribe == [calls |-> <<>>, forced |-> subscribe_all_forced]

\* mutant: the announcement is published before the subscription sequence
connectedAnnounceFirst ==
    LET seq == IF ~mqtt_subscribed
               THEN subscribeSequence(subscriptions, subscribe_all_forced)
               ELSE noSubscribe
    IN connectedStep(seq.forced, announcement(TRUE) \o seq.calls)

\* mutant: the subscribed check is inverted
connectedInvertedCheck ==
    LET seq == IF mqtt_subscribed
               THEN subscribeSequence(subscriptions, subscribe_all_forced)
               ELSE noSubscribe
    IN connectedStep(seq.forced, seq.calls \o announcement(TRUE))

\* mutant: connected is set after the announcement instead of before it
connectedFlagLast ==
    LET seq == IF ~mqtt_subscribed
               THEN subscribeSequence(subscriptions, subscribe_all_forced)
               ELSE noSubscribe
    IN connectedStep(seq.forced, seq.calls \o announcement(mqtt_connected))

\* Homie._connected
connected ==
    LET seq == IF ~mqtt_subscribed
               THEN subscribeSequence(subscriptions, subscribe_all_forced)
               ELSE noSubscribe
    IN connectedStep(seq.forced, seq.calls \o announcement(TRUE))

\* Homie._subscribed
subscribed ==
    /\ mqtt_subscribed' = (IF ~mqtt_subscribed THEN TRUE ELSE mqtt_subscribed)
    /\ Did("_subscribed", "", <<>>, <<>>)
    /\ UNCHANGED <<host, subscribe_all, instance, mqtt_topic, mqtt, fwname,
                   fwversion, nodes, subscriptions, subscribe_all_forced,
                   setupCalled, mqtt_connected, timersStarted, exited>>

\* Homie._published
published ==
    /\ Did("_published", "", <<>>, <<>>)
    /\ UNCHANGED <<host, subscribe_all, instance, mqtt_topic, mqtt, fwname,
                   fwversion, nodes, subscriptions, subscribe_all_forced,
                   setupCalled, mqtt_connected, mqtt_subscribed, timersStarted,
                   exited>>

\* mutant: the callback clears connected only
disconnectedKeepsSubscribed ==
    /\ mqtt_connected' = FALSE
    /\ Did("_disconnected", "", <<>>, <<>>)
    /\ UNCHANGED <<host, subscribe_all, instance, mqtt_topic, mqtt, fwname,
                   fwversion, nodes, subscriptions, subscribe_all_forced,
                   setupCalled, mqtt_subscribed, timersStarted, exited>>

\* Homie._disconnected
disconnected ==
    /\ mqtt_connected' = FALSE
    /\ mqtt_subscribed' = FALSE
    /\ Did("_disconnected", "", <<>>, <<>>)
    /\ UNCHANGED <<host, subscribe_all, instance, mqtt_topic, mqtt, fwname,
                   fwversion, nodes, subscriptions, subscribe_all_forced,
                   setupCalled, timersStarted, exited>>

\* the worker delivers a callback while the network loop runs, one at a time
Worker == loopRunning /\ ~exited /\ workerPc = 0

Connected == Worker /\ connected
\* an acknowledgement answers a subscribe request, at some later time
Subscribed == Worker /\ filters # {} /\ subscribed
Published == Worker /\ published
Disconnected == Worker /\ disconnected

(***************************************************************************)
(* The periodic tasks and the exit hook.                                   *)
(***************************************************************************)
UptimeTimer ==
    /\ timersStarted /\ ~exited
    /\ Did("publishUptime", "", <<>>, publishUptime(mqtt_connected))
    /\ UNCHANGED <<host, subscribe_all, instance, mqtt_topic, mqtt, fwname,
                   fwversion, nodes, subscriptions, subscribe_all_forced,
                   setupCalled, mqtt_connected, mqtt_subscribed, timersStarted,
                   exited>>

SignalTimer ==
    /\ timersStarted /\ ~exited
    /\ Did("publishSignal", "", <<>>, publishSignal(mqtt_connected))
    /\ UNCHANGED <<host, subscribe_all, instance, mqtt_topic, mqtt, fwname,
                   fwversion, nodes, subscriptions, subscribe_all_forced,
                   setupCalled, mqtt_connected, mqtt_subscribed, timersStarted,
                   exited>>

\* mutant: the hook does nothing unless the device is connected
exitusOnlyWhenConnected ==
    IF mqtt_topic = NoAttr
    THEN [raised |-> "AttributeError", calls |-> <<>>]
    ELSE [raised |-> "",
          calls |-> IF mqtt_connected
                    THEN publish(TRUE, mqtt_topic \o "/$online", "false", TRUE)
                         \o <<LoopStop, Disconnect>>
                    ELSE <<>>]

\* Homie._exitus: the exception it raises and the calls it makes
exitus ==
    IF mqtt_topic = NoAttr
    THEN [raised |-> "AttributeError", calls |-> <<>>]
    ELSE [raised |-> "",
          calls |-> publish(mqtt_connected, mqtt_topic \o "/$online", "false", TRUE)
                    \o <<LoopStop, Disconnect>>]

\* the process exits and atexit runs the registered hook
Exitus ==
    /\ ~exited
    /\ exited' = TRUE
    /\ Did("_exitus", exitus.raised, <<>>, exitus.calls)
    /\ UNCHANGED <<host, subscribe_all, instance, mqtt_topic, mqtt, fwname,
                   fwversion, nodes, subscriptions, subscribe_all_forced,
                   setupCalled, mqtt_connected, mqtt_subscribed, timersStarted>>

Next ==
    \/ Node
    \/ Timer
    \/ SetFirmware
    \/ Subscribe
    \/ SubscribeProperty
    \/ SetNodeProperty
    \/ Setup
    \/ Connected
    \/ Subscribed
    \/ Published
    \/ Disconnected
    \/ UptimeTimer
    \/ SignalTimer
    \/ Exitus

Spec == Init /\ [][Next]_vars

(***************************************************************************)
(* The subscription operations driven as a unit test drives them: the      *)
(* lifecycle callbacks are invoked directly on the constructed object,     *)
(* whether or not setup() has started the network loop.  Only the          *)
(* operations that read or write the subscription state take part.         *)
(***************************************************************************)
SimulateConnected == Alive /\ connected
SimulateSubscribed == Alive /\ subscribed
SimulatePublished == Alive /\ published
SimulateDisconnected == Alive /\ disconnected

NextHarness ==
    \/ Subscribe
    \/ SubscribeProperty
    \/ Setup
    \/ SimulateConnected
    \/ SimulateSubscribed
    \/ SimulatePublished
    \/ SimulateDisconnected
    \/ Exitus

SpecHarness == Init /\ [][NextHarness]_vars

(***************************************************************************)
(* The exit of the process, statement by statement.  The main thread       *)
(* leaves the device program at the end of the script or on the SystemExit *)
(* a signal handler raises, and the interpreter then runs the registered   *)
(* hook; the handlers stay installed while it runs, and the worker and the *)
(* timer threads keep running beside it.                                   *)
(***************************************************************************)
Signals == {"_sigTerm", "_sigHup"}

\* the threads beside the main thread
otherThreads == <<timerPc, workerPc, listed, announced>>

\* Homie._sigTerm and Homie._sigHup: what the handler raises in the main thread
sigRaises(sig) == "SystemExit"

\* the main thread leaves the device program and the hook is entered
ExitBegin ==
    /\ ~exited
    /\ exitPc = "run"
    /\ exitPc' = "publish"
    /\ \/ Rec("exit", "", <<>>, <<>>)
       \/ \E sig \in Signals : Rec(sig, sigRaises(sig), <<>>, <<>>)
    /\ UNCHANGED <<coreState, instance, exited, otherThreads>>

\* Homie._exitus, first statement: the publish of $online
ExitPublish ==
    /\ exitPc = "publish"
    /\ IF mqtt_topic = NoAttr
       THEN /\ Rec("_exitus", "AttributeError", <<>>, <<>>)
            /\ exitPc' = "aborted"
            /\ exited' = TRUE
       ELSE /\ Rec("_exitus.publish", "", <<>>,
                   publish(mqtt_connected, mqtt_topic \o "/$online", "false", TRUE))
            /\ exitPc' = "loop_stop"
            /\ UNCHANGED exited
    /\ UNCHANGED <<coreState, instance, otherThreads>>

\* Homie._exitus, second statement
ExitLoopStop ==
    /\ exitPc = "loop_stop"
    /\ Rec("_exitus.loop_stop", "", <<>>, <<LoopStop>>)
    /\ exitPc' = "disconnect"
    /\ UNCHANGED <<coreState, instance, exited, otherThreads>>

\* Homie._exitus, third statement; the hook returns
ExitDisconnect ==
    /\ exitPc = "disconnect"
    /\ Rec("_exitus", "", <<>>, <<Disconnect>>)
    /\ exitPc' = "done"
    /\ exited' = TRUE
    /\ UNCHANGED <<coreState, instance, otherThreads>>

\* a signal arrives while the hook runs: its handler raises inside the hook,
\* which is left at the statement it had reached
ExitSignal ==
    /\ exitPc \in {"publish", "loop_stop", "disconnect"}
    /\ \E sig \in Signals : Rec(sig, sigRaises(sig), <<>>, <<>>)
    /\ exitPc' = "aborted"
    /\ exited' = TRUE
    /\ UNCHANGED <<coreState, instance, otherThreads>>

\* a periodic task fires after the hook has returned: the hook cancels no
\* timer, and the timer threads live until the interpreter is gone
LateTimer ==
    /\ timersStarted
    /\ exitPc = "done"
    /\ \/ Rec("publishUptime", "", <<>>, publishUptime(mqtt_connected))
       \/ Rec("publishSignal", "", <<>>, publishSignal(mqtt_connected))
    /\ UNCHANGED <<coreState, instance, exited, threadState>>

NextExit ==
    \/ Node
    \/ Setup
    \/ Connected
    \/ Disconnected
    \/ UptimeTimer
    \/ ExitBegin
    \/ ExitPublish
    \/ ExitLoopStop
    \/ ExitDisconnect
    \/ ExitSignal
    \/ LateTimer

SpecExit == Init /\ [][NextExit]_vars

(***************************************************************************)
(* The threads side by side.  The core takes no lock: the worker runs the  *)
(* callbacks, a timer thread runs a periodic task, the main thread runs    *)
(* the device program, and the interpreter may switch between them at any  *)
(* statement.  Homie.publish is split at its check of mqtt_connected, and  *)
(* Homie._connected at each iteration of the loop of publishNodes.         *)
(***************************************************************************)
\* the node ids joined into the payload of $nodes
nodeIds == [i \in 1..Len(nodes) |-> nodes[i].nodeId]

\* what _connected publishes up to and including $nodes
announcementUntilNodes(conn) ==
    publish(conn, mqtt_topic \o "/$online", "true", TRUE)
    \o publish(conn, mqtt_topic \o "/$name", DefaultDeviceName, TRUE)
    \o publishHomieVersion(conn)
    \o publishFwname(conn)
    \o publishFwversion(conn)
    \o publish(conn, mqtt_topic \o "/$nodes", Join(",", nodeIds), TRUE)

\* what _connected publishes after publishNodes has returned
announcementAfterNodes(conn) ==
    publishLocalipAndMac(conn)
    \o publishStatsInterval(conn)
    \o publishUptime(conn)
    \o publishSignal(conn)
    \o publishImplementation(conn)

\* Homie._connected up to the $nodes message of publishNodes
ConnectedBegin ==
    /\ Worker
    /\ LET seq == IF ~mqtt_subscribed
                  THEN subscribeSequence(subscriptions, subscribe_all_forced)
                  ELSE noSubscribe
       IN /\ mqtt_connected' = TRUE
          /\ subscribe_all_forced' = seq.forced
          /\ Rec("_connected.begin", "", <<>>,
                 seq.calls \o announcementUntilNodes(TRUE))
    /\ listed' = nodeIds
    /\ announced' = <<>>
    /\ workerPc' = 1
    /\ UNCHANGED <<host, subscribe_all, instance, mqtt_topic, mqtt, fwname,
                   fwversion, nodes, subscriptions, setupCalled,
                   mqtt_subscribed, timersStarted, exited, exitPc, timerPc>>

\* one iteration of "for node in self.nodes", over the list as it is now
ConnectedNode ==
    /\ workerPc \in 1..Len(nodes)
    /\ Rec("_connected.node", "", <<>>,
           sendProperties(mqtt_connected, nodes[workerPc], 1))
    /\ announced' = Append(announced, nodes[workerPc].nodeId)
    /\ workerPc' = workerPc + 1
    /\ UNCHANGED <<coreState, instance, exited, exitPc, timerPc, listed>>

\* the loop is over; the rest of Homie._connected
ConnectedEnd ==
    /\ workerPc > Len(nodes)
    /\ Rec("_connected", "", <<>>, announcementAfterNodes(mqtt_connected))
    /\ workerPc' = 0
    /\ UNCHANGED <<coreState, instance, exited, exitPc, timerPc, listed,
                   announced>>

\* a periodic task in Homie.publish: the test of self.mqtt_connected
TimerCheck ==
    /\ timersStarted /\ ~exited
    /\ timerPc = "idle"
    /\ IF mqtt_connected
       THEN /\ timerPc' = "checked"
            /\ Rec("publishUptime.check", "", <<>>, <<>>)
       ELSE /\ timerPc' = "idle"
            /\ Rec("publishUptime", "", <<>>, publishUptime(FALSE))
    /\ UNCHANGED <<coreState, instance, exited, exitPc, workerPc, listed,
                   announced>>

\* a periodic task in Homie.publish: the call of self.mqtt.publish that the
\* passed test guards
TimerPublish ==
    /\ timerPc = "checked"
    /\ timerPc' = "idle"
    /\ Rec("publishUptime", "", <<>>, publishUptime(TRUE))
    /\ UNCHANGED <<coreState, instance, exited, exitPc, workerPc, listed,
                   announced>>

NextRace ==
    \/ Node
    \/ Setup
    \/ ConnectedBegin
    \/ ConnectedNode
    \/ ConnectedEnd
    \/ Disconnected
    \/ TimerCheck
    \/ TimerPublish

SpecRace == Init /\ [][NextRace]_vars

(***************************************************************************)
(* The operations that hand a topic to the transport, for every identity a *)
(* configuration can give; the callbacks are invoked directly, so that the *)
(* re-issue of a subscription, and with it the unsubscribe, takes part.    *)
(***************************************************************************)
InitIdentity == InitWith(IdentityConfigs)

NextIdentity ==
    \/ Node
    \/ Subscribe
    \/ SubscribeProperty
    \/ SetNodeProperty
    \/ Setup
    \/ SimulateConnected
    \/ Exitus

SpecIdentity == InitIdentity /\ [][NextIdentity]_vars

(***************************************************************************)
(* Vocabulary of the properties.                                           *)
(***************************************************************************)
\* the topic root of the default configuration, and its wildcard
Root == "devices/xxxxxxxx"
Wildcard == "devices/xxxxxxxx/#"

IsPublish(c) == c.op = "publish"
IsSubscribe(c) == c.op = "subscribe"
IsOnlineTrue(c) ==
    c.op = "publish" /\ c.topic = Root \o "/$online" /\ c.payload = "true"
IsNodesPublish(c) == c.op = "publish" /\ c.topic = Root \o "/$nodes"

\* the topics on which a node of the given id announces its properties
AnnouncedFor(id) ==
    IF id = "switch" THEN <<Root \o "/switch/on">>
    ELSE <<Root \o "/sensor/temperature", Root \o "/sensor/humidity">>

IsPropertyAnnouncement(c) ==
    /\ c.op = "publish"
    /\ \E id \in NodeIds : \E k \in 1..Len(AnnouncedFor(id)) :
          c.topic = AnnouncedFor(id)[k]

RECURSIVE ExpectedProperties(_)
ExpectedProperties(ns) ==
    IF ns = <<>> THEN <<>>
    ELSE AnnouncedFor(ns[1].nodeId) \o ExpectedProperties(Tail(ns))

\* the publishes among the calls cs
Publishes(cs) == SelectSeq(cs, IsPublish)

\* topic and retain flag of every publish among the calls cs, in order
Shape(cs) ==
    [i \in 1..Len(Publishes(cs)) |->
        <<Publishes(cs)[i].topic, Publishes(cs)[i].retain>>]

(***************************************************************************)
(* C1.  A 'connected' callback that finds subscribed false makes its       *)
(* transport calls in this order: the subscribe request first, then the    *)
(* publish of $online=true, then the publish of $nodes, then every node    *)
(* property announcement.  No $online=true precedes the subscribe request  *)
(* and no property announcement precedes $nodes.                           *)
(***************************************************************************)
ConnectOrder ==
    (op = "_connected" /\ ~mqtt_subscribed) =>
        /\ calls # <<>>
        /\ calls[1].op = "subscribe"
        /\ \E i \in 1..Len(calls) : \E j \in 1..Len(calls) :
              /\ 1 < i
              /\ i < j
              /\ IsOnlineTrue(calls[i])
              /\ IsNodesPublish(calls[j])
              /\ \A k \in 1..Len(calls) :
                    /\ IsOnlineTrue(calls[k]) => k >= i
                    /\ IsSubscribe(calls[k]) => k < i
                    /\ IsPropertyAnnouncement(calls[k]) => k > j
              /\ \A n \in 1..Len(nodes) :
                    \A t \in 1..Len(AnnouncedFor(nodes[n].nodeId)) :
                       \E k \in (j + 1)..Len(calls) :
                          /\ calls[k].op = "publish"
                          /\ calls[k].topic = AnnouncedFor(nodes[n].nodeId)[t]

ConnectOrderWitness ==
    /\ op = "_connected"
    /\ ~mqtt_subscribed
    /\ Len(nodes) = 2
    /\ nodes[1].nodeId # nodes[2].nodeId
    /\ calls[1].op = "subscribe"

(***************************************************************************)
(* C2.  As claimed: whenever a 'connected' callback has published          *)
(* $online=true, the subscribed state is true.                             *)
(***************************************************************************)
OnlineOnlyWhenSubscribed ==
    (op = "_connected" /\ \E i \in 1..Len(calls) : IsOnlineTrue(calls[i]))
        => mqtt_subscribed

(***************************************************************************)
(* C2, amended.  A 'connected' callback publishes $online=true and does    *)
(* not change the subscribed state.  When it finds subscribed false it     *)
(* hands the subscribe request to the transport before it publishes        *)
(* $online=true; subscribed is still false at that moment.                 *)
(***************************************************************************)
RequestPrecedesOnline ==
    [][op' = "_connected" =>
        /\ mqtt_subscribed' = mqtt_subscribed
        /\ \E j \in 1..Len(calls') : IsOnlineTrue(calls'[j])
        /\ ~mqtt_subscribed =>
              \E i \in 1..Len(calls') : \E j \in 1..Len(calls') :
                 /\ i < j
                 /\ IsSubscribe(calls'[i])
                 /\ IsOnlineTrue(calls'[j])]_vars

RequestPrecedesOnlineWitness ==
    /\ op = "_connected"
    /\ ~mqtt_subscribed
    /\ mqtt_connected
    /\ IsSubscribe(calls[1])
    /\ IsOnlineTrue(calls[2])

(***************************************************************************)
(* C3.  The publishes of a 'connected' callback are, all retained and in   *)
(* exactly this order: $online=true, $name, $homie, $fw/name if a firmware *)
(* name was set, $fw/version if a firmware version was set, $nodes, the    *)
(* property announcements of every registered node in registration order,  *)
(* $localip, $mac, $stats/interval, $stats/uptime, $stats/signal,          *)
(* $implementation; and nothing else follows the first of them.            *)
(***************************************************************************)
ExpectedAnnouncement ==
    <<Root \o "/$online", Root \o "/$name", Root \o "/$homie">>
    \o (IF fwname \notin {"None", ""} THEN <<Root \o "/$fw/name">> ELSE <<>>)
    \o (IF fwversion \notin {"None", ""} THEN <<Root \o "/$fw/version">> ELSE <<>>)
    \o <<Root \o "/$nodes">>
    \o ExpectedProperties(nodes)
    \o <<Root \o "/$localip", Root \o "/$mac", Root \o "/$stats/interval",
         Root \o "/$stats/uptime", Root \o "/$stats/signal",
         Root \o "/$implementation">>

AnnouncementExact ==
    op = "_connected" =>
        LET pubs == Publishes(calls)
            n == Len(calls)
        IN /\ [i \in 1..Len(pubs) |-> pubs[i].topic] = ExpectedAnnouncement
           /\ \A i \in 1..Len(pubs) : pubs[i].retain = TRUE
           /\ pubs[1].payload = "true"
           /\ SubSeq(calls, n - Len(pubs) + 1, n) = pubs

AnnouncementExactWitness ==
    /\ op = "_connected"
    /\ fwname = "relay-switch"
    /\ fwversion = "None"
    /\ Len(nodes) = 2
    /\ nodes[1].nodeId = "sensor"
    /\ nodes[2].nodeId = "switch"
    /\ Len(Publishes(calls)) = 14

(***************************************************************************)
(* C4.  setNodeProperty changes nothing in the core or in the transport's  *)
(* registrations; called while connected is false it makes no transport    *)
(* call, called while connected is true it makes exactly one publish, to   *)
(* the root, the node id and the property, retained unless the caller      *)
(* passed retain = false.                                                  *)
(***************************************************************************)
SetNodePropertyAtMostOnce ==
    [][op' = "setNodeProperty" =>
        /\ UNCHANGED <<coreState, will, handlers, filters, loopRunning>>
        /\ args'[1] \in {Root \o "/" \o id \o "/" \o p :
                            id \in SubNodeIds, p \in Attrs}
        /\ calls' = IF mqtt_connected
                    THEN <<[op |-> "publish", topic |-> args'[1],
                            payload |-> "true",
                            retain |-> (IF args'[2] = <<>> THEN TRUE
                                        ELSE args'[2][1]),
                            qos |-> 1]>>
                    ELSE <<>>]_vars

SetNodePropertyAtMostOnceWitness ==
    /\ op = "setNodeProperty"
    /\ ~mqtt_connected
    /\ loopRunning
    /\ subscribe_all_forced
    /\ calls = <<>>

(***************************************************************************)
(* C5.  Two 'connected' callbacks in succession publish the same topics    *)
(* in the same order with the same retain flags, and connected is true     *)
(* after each.                                                             *)
(***************************************************************************)
AnnouncementIdempotent ==
    [][(op = "_connected" /\ op' = "_connected") =>
        /\ Shape(calls') = Shape(calls)
        /\ Shape(calls') # <<>>
        /\ mqtt_connected
        /\ mqtt_connected']_vars

AnnouncementIdempotentWitness ==
    /\ op = "_connected"
    /\ nConnects = 2
    /\ nodes # <<>>
    /\ mqtt_connected

(***************************************************************************)
(* C6.  A 'connected' callback that finds subscribed false issues exactly  *)
(* one subscribe request: the whole list of recorded (topic, qos) pairs,   *)
(* without the wildcard, when the list is not empty, otherwise the         *)
(* wildcard alone, and then the forced-wildcard flag is set.  A            *)
(* 'connected' callback that finds subscribed true issues none.            *)
(***************************************************************************)
SubscribeOncePerConnect ==
    op = "_connected" =>
        LET reqs == SelectSeq(calls, IsSubscribe)
        IN IF mqtt_subscribed THEN reqs = <<>>
           ELSE /\ Len(reqs) = 1
                /\ IF subscriptions # <<>>
                   THEN /\ reqs[1].subs = subscriptions
                        /\ \A i \in 1..Len(reqs[1].subs) :
                              reqs[1].subs[i][1] # Wildcard
                   ELSE /\ reqs[1].subs = << <<Wildcard, 1>> >>
                        /\ subscribe_all_forced

SubscribeOncePerConnectWitness ==
    /\ op = "_connected"
    /\ ~mqtt_subscribed
    /\ Len(subscriptions) = 2
    /\ subscriptions[1] # subscriptions[2]
    /\ Len(SelectSeq(calls, IsSubscribe)) = 1

(***************************************************************************)
(* C7.  A subscription sequence that sends individual subscriptions while  *)
(* the forced-wildcard flag is set and 'subscribe all' is not configured   *)
(* also unsubscribes the wildcard, after the subscribe request; and the    *)
(* wildcard is never left subscribed together with an individual topic.    *)
(***************************************************************************)
WildcardReplaced ==
    /\ \A i \in 1..Len(calls) :
          (/\ op \in {"_connected", "subscribe", "subscribeProperty"}
           /\ subscribe_all_forced
           /\ ~subscribe_all
           /\ IsSubscribe(calls[i])
           /\ calls[i].subs[1][1] # Wildcard)
          => \E j \in (i + 1)..Len(calls) :
                calls[j] = [op |-> "unsubscribe", topic |-> Wildcard]
    /\ Wildcard \in filters => filters = {Wildcard}

WildcardReplacedWitness ==
    /\ op = "subscribe"
    /\ subscribe_all_forced
    /\ ~subscribe_all
    /\ Len(calls) = 3
    /\ calls[2] = [op |-> "unsubscribe", topic |-> Wildcard]
    /\ filters = {args[1]}

(***************************************************************************)
(* C8.  In 'subscribe all' mode the subscription list stays empty, every   *)
(* subscribe request sent to the transport is the wildcard, and a          *)
(* successful subscribe or subscribeProperty still registers the message   *)
(* handler for its exact topic.                                            *)
(***************************************************************************)
SubscribeAllRecordsNothing ==
    subscribe_all =>
        /\ subscriptions = <<>>
        /\ filters \subseteq {Wildcard}
        /\ \A i \in 1..Len(calls) :
              IsSubscribe(calls[i]) => calls[i].subs = << <<Wildcard, 1>> >>
        /\ (op \in {"subscribe", "subscribeProperty"} /\ raised = "") =>
              /\ args[1] \in handlers
              /\ \E i \in 1..Len(calls) :
                    calls[i] = [op |-> "message_callback_add", topic |-> args[1]]

SubscribeAllRecordsNothingWitness ==
    /\ subscribe_all
    /\ op = "_connected"
    /\ Cardinality(handlers) = 2
    /\ filters = {Wildcard}

(***************************************************************************)
(* C9.  subscribe, subscribeProperty and setFirmware called after setup()  *)
(* raise, make no transport call and leave the core and the transport      *)
(* unchanged; called before setup() they do not raise and take effect.     *)
(***************************************************************************)
SetupOnlyOperations ==
    [][op' \in {"subscribe", "subscribeProperty", "setFirmware"} =>
        IF setupCalled
        THEN /\ raised' = "BaseException"
             /\ calls' = <<>>
             /\ UNCHANGED <<coreState, transportState>>
        ELSE /\ raised' = ""
             /\ op' = "setFirmware" =>
                   /\ fwname' = args'[1]
                   /\ fwversion' = args'[2]
             /\ op' # "setFirmware" =>
                   /\ args'[1] \in handlers'
                   /\ ~subscribe_all =>
                         /\ Len(subscriptions') = Len(subscriptions) + 1
                         /\ subscriptions'[Len(subscriptions')][1] = args'[1]]_vars

SetupOnlyOperationsWitness ==
    /\ op = "subscribe"
    /\ raised = "BaseException"
    /\ mqtt_connected
    /\ subscriptions = <<>>
    /\ handlers = {}

(***************************************************************************)
(* C10.  With an empty or missing host the constructor raises, the caller  *)
(* gets no object, and no transport operation is ever performed, the exit  *)
(* hook included.                                                          *)
(***************************************************************************)
NoSessionWithoutHost ==
    host \in {"None", ""} =>
        /\ ~instance
        /\ op = "__init__" => raised = "ValueError"
        /\ ~transportUsed
        /\ calls = <<>>
        /\ will = NoWill
        /\ ~loopRunning
        /\ filters = {}
        /\ handlers = {}
        /\ ~setupCalled
        /\ ~mqtt_connected

NoSessionWithoutHostWitness ==
    /\ host \in {"None", ""}
    /\ exited
    /\ op = "_exitus"

(***************************************************************************)
(* C11: within one setup() the connect is attempted once, or twice when    *)
(* and only when the first attempt raised EnvironmentError; a failure that *)
(* is not retried, or the failure of the second attempt, leaves setup()    *)
(* with that exception, no loop_start, no running loop and no periodic     *)
(* task; a successful attempt is followed by exactly one loop_start, the   *)
(* last call, and the periodic tasks are started.                          *)
(***************************************************************************)
CountOp(cs, name) == Cardinality({i \in 1..Len(cs) : cs[i].op = name})

ConnectRetry ==
    op = "setup" =>
        LET n == CountOp(calls, "connect")
            failure == IF args[1] = "EnvironmentError" THEN args[2] ELSE args[1]
        IN /\ n \in {1, 2}
           /\ (n = 2) <=> (args[1] = "EnvironmentError")
           /\ raised = (IF failure = "ok" THEN "" ELSE failure)
           /\ raised # "" =>
                 /\ CountOp(calls, "loop_start") = 0
                 /\ calls[Len(calls)] = Connect
                 /\ ~loopRunning
                 /\ ~timersStarted
           /\ raised = "" =>
                 /\ CountOp(calls, "loop_start") = 1
                 /\ calls[Len(calls)] = LoopStart
                 /\ calls[Len(calls) - 1] = Connect
                 /\ loopRunning
                 /\ timersStarted

ConnectRetryWitness ==
    /\ op = "setup"
    /\ args = <<"EnvironmentError", "ok">>
    /\ CountOp(calls, "connect") = 2
    /\ loopRunning

(***************************************************************************)
(* C12: whatever ends the process (the end of the script, SIGTERM, SIGHUP, *)
(* at any point, also while the hook is running), the exit hook of a       *)
(* constructed object has run to its last statement once the process has   *)
(* left it: it is never skipped and never abandoned part-way.              *)
(***************************************************************************)
ExitRunsToCompletion == (instance /\ exited) => exitPc = "done"

(***************************************************************************)
(* C13: the exit hook of a constructed object publishes $online = "false", *)
(* retained, exactly when connected is true, and in both cases then calls  *)
(* loop_stop and then disconnect, and nothing else; the loop is stopped    *)
(* afterwards.                                                             *)
(***************************************************************************)
ExitSequence ==
    (op = "_exitus" /\ instance) =>
        /\ calls = (IF mqtt_connected
                    THEN <<Pub(Root \o "/$online", "false", TRUE, DefaultQos)>>
                    ELSE <<>>)
                   \o <<LoopStop, Disconnect>>
        /\ raised = ""
        /\ ~loopRunning

ExitSequenceWitness ==
    /\ op = "_exitus"
    /\ instance
    /\ setupCalled
    /\ filters # {}
    /\ ~mqtt_connected
    /\ calls = <<LoopStop, Disconnect>>

(***************************************************************************)
(* C14: a step of any operation other than the 'connected', 'subscribed'   *)
(* and 'disconnected' callbacks leaves connected and subscribed as they    *)
(* were, and a step of the 'disconnected' callback leaves both false,      *)
(* whatever they were.                                                     *)
(***************************************************************************)
FlagCallbacks == {"_connected", "_subscribed", "_disconnected"}

FlagsFrame ==
    [][/\ op' \notin FlagCallbacks =>
            UNCHANGED <<mqtt_connected, mqtt_subscribed>>
       /\ op' = "_disconnected" => (~mqtt_connected' /\ ~mqtt_subscribed')]_vars

FlagsFrameWitness ==
    /\ op = "_exitus"
    /\ mqtt_connected
    /\ mqtt_subscribed

(***************************************************************************)
(* C15: once the object is constructed its topic root is baseTopic, "/",   *)
(* deviceId; no step changes baseTopic, deviceId or the topic root; and    *)
(* every topic the transport is handed (last will, publish, subscribe,     *)
(* unsubscribe, message callback) is that root, "/", and a non-empty       *)
(* suffix.                                                                 *)
(***************************************************************************)
ExpectedRoot == baseTopic \o "/" \o deviceId

UnderRoot(t) ==
    /\ Len(t) > Len(ExpectedRoot) + 1
    /\ SubSeq(t, 1, Len(ExpectedRoot) + 1) = ExpectedRoot \o "/"

CallTopics(c) ==
    CASE c.op \in {"publish", "unsubscribe", "will_set", "message_callback_add"} ->
            {c.topic}
      [] c.op = "subscribe" -> {c.subs[i][1] : i \in 1..Len(c.subs)}
      [] OTHER -> {}

TopicsUnderRoot ==
    /\ instance => mqtt_topic = ExpectedRoot
    /\ \A i \in 1..Len(calls) : \A t \in CallTopics(calls[i]) : UnderRoot(t)
    /\ will # NoWill => UnderRoot(will.topic)
    /\ \A t \in handlers \cup filters : UnderRoot(t)

RootedIdentity ==
    /\ []TopicsUnderRoot
    /\ [][UNCHANGED <<baseTopic, deviceId, mqtt_topic>>]_vars

RootedIdentityWitness ==
    /\ deviceId \in GeneratedIds
    /\ op \in {"subscribe", "subscribeProperty"}
    /\ \E i \in 1..Len(calls) : calls[i].op = "unsubscribe"
    /\ \E i \in 1..Len(calls) : calls[i].op = "message_callback_add"

(***************************************************************************)
(* C16: whenever a periodic task has handed a publish to the transport,    *)
(* connected is true: the test of connected and the transport publish of   *)
(* Homie.publish are not separated by a 'disconnected' callback.           *)
(***************************************************************************)
PublishOnlyWhileConnected ==
    (op = "publishUptime" /\ calls # <<>>) => mqtt_connected

(***************************************************************************)
(* C17: when a 'connected' callback is over, the nodes whose properties it *)
(* announced are the nodes its $nodes payload listed, in the same order,   *)
(* also when Node() ran on the main thread meanwhile.                      *)
(***************************************************************************)
AnnouncedAreListed == workerPc = 0 => announced = listed

(***************************************************************************)
(* C18: in every reachable state subscribed implies connected, whatever    *)
(* the order in which the worker delivers 'connected', 'subscribed' and    *)
(* 'disconnected'.                                                         *)
(***************************************************************************)
SubscribedImpliesConnected == mqtt_subscribed => mqtt_connected

(***************************************************************************)
(* C19: no operation and no callback ever hands an unsubscribe to the      *)
(* transport: connected is false as long as setup() was not called, that   *)
(* is whenever subscribe or subscribeProperty passes its check; a          *)
(* subscribe or subscribeProperty that is accepted sends no subscription   *)
(* request; the subscription list no longer changes once setup() was       *)
(* called; and the forced-wildcard flag is never true while the list is    *)
(* non-empty.                                                              *)
(***************************************************************************)
SubscribeOps == {"subscribe", "subscribeProperty"}

NoReissue ==
    /\ \A i \in 1..Len(calls) : calls[i].op # "unsubscribe"
    /\ ~setupCalled => (~mqtt_connected /\ filters = {})
    /\ (op \in SubscribeOps /\ raised = "") =>
          \A i \in 1..Len(calls) : calls[i].op = "message_callback_add"
    /\ ~(subscribe_all_forced /\ subscriptions # <<>>)

NeverUnsubscribes ==
    /\ []NoReissue
    /\ [][setupCalled => subscriptions' = subscriptions]_vars

NeverUnsubscribesWitness ==
    /\ op \in SubscribeOps
    /\ raised = "BaseException"
    /\ mqtt_connected
    /\ subscribe_all_forced
    /\ subscriptions = <<>>

(***************************************************************************)
(* C20: once the exit hook has called disconnect and returned, no          *)
(* operation hands a publish to the transport; a periodic task that fires  *)
(* afterwards publishes nothing.                                           *)
(***************************************************************************)
NoPublishAfterExit ==
    exitPc = "done" => \A i \in 1..Len(calls) : calls[i].op # "publish"

====
